---- MODULE Spec2Model ----
(***************************************************************************)
(* Model of the concurrent benchmark orchestration of                      *)
(* main/xiaozhi-server/performance_tester_en.py (EnhancedPerformanceTester)*)
(* (specification Spec), of one probe at the granularity of its backend    *)
(* calls, with the function-calling tests of                               *)
(* performance_tester_grid_search.py and test_function_calling.py          *)
(* (specification SpecProbe), of the response classifiers of these two     *)
(* files (specification SpecClassify) and of one sentence trial at the     *)
(* granularity of its increments (specification SpecTrial).                *)
(*                                                                         *)
(* Latencies are integers in units of 0.01 s.  Scores, which the program   *)
(* computes in floating point, are modelled as exact rationals             *)
(* [n |-> numerator, d |-> denominator] in lowest terms, with d > 0.       *)
(***************************************************************************)
EXTENDS Integers, Sequences, FiniteSets, TLC

(***************************************************************************)
(* Bounds of the model and program constants                               *)
(***************************************************************************)
\* avg_first_token_time >= 0.05 in valid_llms, in units of 0.01 s
MinFirstToken == 5
\* generation backends measure MinFirstToken-1 .. MinFirstToken+MaxExtra
MaxExtra == 1
\* std_first_token ranges over 0 .. MaxStd
MaxStd == 1
\* avg_synthesis_time ranges over 0 .. MaxTts
MaxTts == 2
\* avg_processing_time ranges over 0 .. MaxStt
MaxStt == 1

\* the configured backends, in the order of the configuration file
LlmCfg == <<"CozeLLM", "L2">>
TtsCfg == <<"T1", "T2">>
SttCfg == <<"S1", "S2">>

Range(s) == {s[i] : i \in DOMAIN s}

LlmNames == Range(LlmCfg)
TtsNames == Range(TtsCfg)
SttNames == Range(SttCfg)
Units == LlmNames \cup TtsNames \cup SttNames

\* the credential fields of the configuration: the api_key / token field of every
\* backend, named by the backend, and the bot_id and user_id fields of CozeLLM
CozeIds == "CozeLLM.bot_id/user_id"
CredentialFields == Units \cup {CozeIds}

KindOf(u) == IF u \in LlmNames THEN "llm" ELSE IF u \in TtsNames THEN "tts" ELSE "stt"

LlmAvgs == (MinFirstToken - 1) .. (MinFirstToken + MaxExtra)
LlmStds == 0 .. MaxStd
TtsAvgs == 0 .. MaxTts
SttAvgs == 0 .. MaxStt

\* what can happen inside one probe
LlmStartEvents == {"create_failed", "started"}
LlmEvents == {"ok", "no_valid", "unstable", "exception"}
TtsEvents == {"ok", "warmup_failed", "trial_failed", "exception"}
SttEvents == {"ok", "warmup_failed", "trial_failed", "exception"}

NoResult == [type |-> "none"]

VARIABLES
    placeholder,    \* the credential fields that hold a placeholder marker
    has_wav,        \* test_wav_list is not empty
    pc,             \* position of run_with_timeout: "start", "gather", "done", "crashed"
    unit,           \* per backend: "skipped", "idle", "pending", "running", "done", "cancelled"
    probe,          \* per backend: what happened in its probe: "none", "ok", "failed",
                    \* "unconfigured" (refused before any backend instance was created)
    all_results,    \* per backend: the dict its unit of work returned, or NoResult
    results,        \* self.results: insertion-ordered maps llm, tts, stt and the list combinations
    vram_usage,     \* the keys of self.vram_usage
    timed_out,      \* asyncio.TimeoutError was handled
    reports,        \* how often the final report was generated
    notices         \* the "No ... available" notices printed by _print_results

\* one probe, call by call
VARIABLES
    probed,         \* the probe function, one of ProbeKinds; "none" outside SpecProbe
    test_count,     \* len(self.test_sentences); len(self.test_wav_list) for "stt"
    backend,        \* what the backend under test does at its 1st, 2nd, ... call
    service,        \* what the local model service answers; "none": not a local-model backend
    probe_pc,       \* "check", "create", "warmup", "trials", "function_calling", "done",
                    \* "cancelled"; "off" outside SpecProbe
    listing,        \* the answer _check_ollama_service got; "none": it was not called
    in_flight,      \* the sentence trials that have begun and not ended
    calls,          \* the backend calls issued so far: [role, outcome]
    times,          \* response_times / synthesis_times / processing_times
    filtered_times, \* filtered_times of _test_llm_performance
    artifacts,      \* the audio files written by the trials that still exist
    function_results, \* the function-calling report, or NoResult
    probe_result    \* the dict the probe returned, or NoResult

\* one classification of a reply
VARIABLES
    tester,         \* "grid_search", "function_calling"; "none" outside SpecClassify
    scenario,       \* index of the scenario in the tester's scenario list
    response,       \* the reply of the model
    analysis        \* [score, detected] once _analyze_function_response returned

\* the sentence trials of one generation probe, increment by increment
VARIABLES
    trial_tester,     \* "benchmark", "grid_search"; "none" outside SpecTrial
    sentences_left,   \* the sentences whose trial has not run yet
    trial_pc,         \* "idle", "streaming", "done"; "off" outside SpecTrial
    stream,           \* the increments of the current trial: [chunk, at]
    raised,           \* the current trial ended with an exception
    elapsed,          \* time.time() - sentence_start
    first_token_time, \* <<>> for None, <<t>> once set
    sentence_results, \* what the trials returned: a measurement, or NoResult for None
    valid_results     \* valid_results of _test_llm_performance

benchVars == <<placeholder, has_wav, pc, unit, probe, all_results, results, vram_usage, timed_out,
               reports, notices>>
probeVars == <<probed, test_count, backend, service, probe_pc, listing, in_flight, calls, times,
               filtered_times, artifacts, function_results, probe_result>>
classifyVars == <<tester, scenario, response, analysis>>
trialVars == <<trial_tester, sentences_left, trial_pc, stream, raised, elapsed, first_token_time,
               sentence_results, valid_results>>

vars == <<benchVars, probeVars, classifyVars, trialVars>>

(***************************************************************************)
(* The result dicts of the probes                                          *)
(***************************************************************************)
ErrorResult(name, kind) == [name |-> name, type |-> kind, errors |-> 1]

LlmProbeResult(name, ev, avg, std) ==
    IF ev = "ok"
    THEN [name |-> name, type |-> "llm", errors |-> 0,
          avg_first_token_time |-> avg, std_first_token |-> std]
    ELSE ErrorResult(name, "llm")

\* mutant: a failed content trial does not end the probe with an error result
TtsProbeResultIgnoringFailedTrial(name, ev, avg) ==
    IF ev \in {"ok", "trial_failed"}
    THEN [name |-> name, type |-> "tts", errors |-> 0, avg_synthesis_time |-> avg]
    ELSE ErrorResult(name, "tts")

TtsProbeResult(name, ev, avg) ==
    IF ev = "ok"
    THEN [name |-> name, type |-> "tts", errors |-> 0, avg_synthesis_time |-> avg]
    ELSE ErrorResult(name, "tts")

SttProbeResult(name, ev, avg) ==
    IF ev = "ok"
    THEN [name |-> name, type |-> "stt", errors |-> 0, avg_processing_time |-> avg]
    ELSE ErrorResult(name, "stt")

(***************************************************************************)
(* Insertion-ordered dicts: sequences of [key, val] with distinct keys     *)
(***************************************************************************)
Keys(d) == {d[i].key : i \in DOMAIN d}

KeyList(d) == [i \in DOMAIN d |-> d[i].key]

Get(d, k) == (CHOOSE e \in Range(d) : e.key = k).val

DictSet(d, k, v) ==
    IF k \in Keys(d)
    THEN [i \in DOMAIN d |-> IF d[i].key = k THEN [key |-> k, val |-> v] ELSE d[i]]
    ELSE Append(d, [key |-> k, val |-> v])

(***************************************************************************)
(* Rationals                                                               *)
(***************************************************************************)
RECURSIVE GCD(_, _)
GCD(a, b) == IF b = 0 THEN a ELSE GCD(b, a % b)

\* n / d in lowest terms; n >= 0 and d > 0
Rat(n, d) == LET g == GCD(n, d) IN [n |-> n \div g, d |-> d \div g]
RatScale(r, p, q) == Rat(r.n * p, r.d * q)
RatAdd(r, s) ==
    LET g == GCD(r.d, s.d)
    IN  Rat(r.n * (s.d \div g) + s.n * (r.d \div g), (r.d \div g) * s.d)
RatLeq(r, s) ==
    LET g == GCD(r.d, s.d)
    IN  r.n * (s.d \div g) <= s.n * (r.d \div g)
RatLess(r, s) == ~RatLeq(s, r)

MinOf(S) == CHOOSE m \in S : \A x \in S : m <= x

(***************************************************************************)
(* _generate_combinations                                                  *)
(***************************************************************************)
ErrorFree(v) == v.errors = 0

\* mutant: the threshold is exclusive
ValidLlmsAboveThreshold(res) ==
    KeyList(SelectSeq(res.llm,
        LAMBDA e : ErrorFree(e.val) /\ e.val.avg_first_token_time > MinFirstToken))

ValidLlms(res) ==
    KeyList(SelectSeq(res.llm,
        LAMBDA e : ErrorFree(e.val) /\ e.val.avg_first_token_time >= MinFirstToken))

ValidTts(res) == KeyList(SelectSeq(res.tts, LAMBDA e : ErrorFree(e.val)))

ValidStt(res) == KeyList(SelectSeq(res.stt, LAMBDA e : ErrorFree(e.val)))

MinFirstTokenTime(res) ==
    IF ValidLlms(res) # <<>>
    THEN MinOf({Get(res.llm, k).avg_first_token_time : k \in Range(ValidLlms(res))})
    ELSE 1

MinTtsTime(res) ==
    IF ValidTts(res) # <<>>
    THEN MinOf({Get(res.tts, k).avg_synthesis_time : k \in Range(ValidTts(res))})
    ELSE 1

MinSttTime(res) ==
    IF ValidStt(res) # <<>>
    THEN MinOf({Get(res.stt, k).avg_processing_time : k \in Range(ValidStt(res))})
    ELSE 1

\* mutant: the generation part is weighted 0.4
TotalScoreOtherWeight(res, llm, tts, stt) ==
    LET llm_score == Rat(Get(res.llm, llm).avg_first_token_time, MinFirstTokenTime(res))
        tts_score == Rat(Get(res.tts, tts).avg_synthesis_time, MinTtsTime(res))
        stt_score == Rat(Get(res.stt, stt).avg_processing_time, MinSttTime(res))
        llm_stability == Rat(Get(res.llm, llm).std_first_token,
                             Get(res.llm, llm).avg_first_token_time)
        llm_final_score == RatAdd(RatScale(llm_score, 7, 10), RatScale(llm_stability, 3, 10))
    IN  RatAdd(RatAdd(RatScale(llm_final_score, 4, 10), RatScale(tts_score, 3, 10)),
               RatScale(stt_score, 3, 10))

\* total_score of one combination; the divisors are not zero here
TotalScore(res, llm, tts, stt) ==
    LET llm_score == Rat(Get(res.llm, llm).avg_first_token_time, MinFirstTokenTime(res))
        tts_score == Rat(Get(res.tts, tts).avg_synthesis_time, MinTtsTime(res))
        stt_score == Rat(Get(res.stt, stt).avg_processing_time, MinSttTime(res))
        llm_stability == Rat(Get(res.llm, llm).std_first_token,
                             Get(res.llm, llm).avg_first_token_time)
        llm_final_score == RatAdd(RatScale(llm_score, 7, 10), RatScale(llm_stability, 3, 10))
    IN  RatAdd(RatAdd(RatScale(llm_final_score, 7, 10), RatScale(tts_score, 3, 10)),
               RatScale(stt_score, 3, 10))

Combination(res, llm, tts, stt) ==
    [llm |-> llm, tts |-> tts, stt |-> stt, score |-> TotalScore(res, llm, tts, stt)]

\* the body of the three nested loops runs at least once and divides by zero
LoopRaises(res) ==
    /\ ValidLlms(res) # <<>> /\ ValidTts(res) # <<>> /\ ValidStt(res) # <<>>
    /\ (MinTtsTime(res) = 0 \/ MinSttTime(res) = 0)

\* mutant: the innermost loop always takes the first recognition backend
LoopCombinationsFirstStt(res) ==
    LET L == ValidLlms(res)
        T == ValidTts(res)
        S == ValidStt(res)
        nt == Len(T)
        ns == Len(S)
    IN  [i \in 1 .. (Len(L) * nt * ns) |->
            Combination(res, L[((i - 1) \div (nt * ns)) + 1],
                             T[(((i - 1) \div ns) % nt) + 1],
                             S[1])]

\* the combinations in the order in which the nested loops append them
LoopCombinations(res) ==
    LET L == ValidLlms(res)
        T == ValidTts(res)
        S == ValidStt(res)
        nt == Len(T)
        ns == Len(S)
    IN  [i \in 1 .. (Len(L) * nt * ns) |->
            Combination(res, L[((i - 1) \div (nt * ns)) + 1],
                             T[(((i - 1) \div ns) % nt) + 1],
                             S[((i - 1) % ns) + 1])]

\* list.sort(key=score) is stable: c goes after every entry whose score is <= its own
InsertByScore(sorted, c) ==
    LET before == {i \in DOMAIN sorted : RatLeq(sorted[i].score, c.score)}
        n == IF before = {} THEN 0 ELSE CHOOSE m \in before : \A x \in before : x <= m
    IN  SubSeq(sorted, 1, n) \o <<c>> \o SubSeq(sorted, n + 1, Len(sorted))

\* mutant: the list is left in the order of the loops
SortByScoreSkipped(s) == s

RECURSIVE SortByScore(_)
SortByScore(s) ==
    IF s = <<>> THEN <<>>
    ELSE InsertByScore(SortByScore(SubSeq(s, 1, Len(s) - 1)), s[Len(s)])

\* the effect of _generate_combinations on self.results, and whether it raised
GenerateCombinations(res) ==
    IF LoopRaises(res)
    THEN [raised |-> TRUE, results |-> res]
    ELSE [raised |-> FALSE,
          results |-> [res EXCEPT !.combinations = SortByScore(@ \o LoopCombinations(res))]]

(***************************************************************************)
(* run: the tasks and the processing of their results                      *)
(***************************************************************************)
Eligible(u) ==
    /\ IF u = "CozeLLM" THEN CozeIds \notin placeholder ELSE u \notin placeholder
    /\ u \in SttNames => has_wav

\* all_tasks, in the order in which run() appends them
AllTasks == SelectSeq(LlmCfg \o TtsCfg \o SttCfg, LAMBDA u : unit[u] # "skipped")

\* mutant: every returned dict is stored, whatever its error count
StoreResultWithErrors(res, result) ==
    IF result.type # "none"
    THEN [res EXCEPT ![result.type] = DictSet(@, result.name, result)]
    ELSE res

StoreResult(res, result) ==
    IF result.type # "none" /\ result.errors = 0
    THEN [res EXCEPT ![result.type] = DictSet(@, result.name, result)]
    ELSE res

\* mutant: the loop over all_results stops at the first result that is not error-free
RECURSIVE ProcessResultsUntilError(_, _, _)
ProcessResultsUntilError(tasks, all, res) ==
    IF tasks = <<>> \/ StoreResult(res, all[Head(tasks)]) = res THEN res
    ELSE ProcessResultsUntilError(Tail(tasks), all, StoreResult(res, all[Head(tasks)]))

RECURSIVE ProcessResults(_, _, _)
ProcessResults(tasks, all, res) ==
    IF tasks = <<>> THEN res
    ELSE ProcessResults(Tail(tasks), all, StoreResult(res, all[Head(tasks)]))

\* mutant: the report says nothing about an empty combination list
PrintResultsWithoutCombinationNotice(res) ==
    {kind \in {"llm", "tts", "stt"} : \A e \in Range(res[kind]) : ~ErrorFree(e.val)}

\* the notices of _print_results: a kind without error-free row in its table, and
\* an empty combination list
PrintResults(res) ==
    {kind \in {"llm", "tts", "stt"} : \A e \in Range(res[kind]) : ~ErrorFree(e.val)}
        \cup (IF res.combinations = <<>> THEN {"combinations"} ELSE {})

\* _generate_combinations, _print_results, _export_to_csv
Report(res) ==
    LET gen == GenerateCombinations(res)
    IN  /\ results' = gen.results
        /\ pc' = IF gen.raised THEN "crashed" ELSE "done"
        /\ reports' = IF gen.raised THEN reports ELSE reports + 1
        /\ notices' = IF gen.raised THEN notices ELSE PrintResults(gen.results)

(***************************************************************************)
(* The state machine of the benchmark run                                  *)
(***************************************************************************)
\* no single probe and no classification is followed in this specification
ProbeOff ==
    /\ probed = "none" /\ test_count = 0 /\ backend = <<>> /\ service = "none"
    /\ probe_pc = "off" /\ listing = "none" /\ in_flight = 0
    /\ calls = <<>> /\ times = <<>> /\ filtered_times = <<>> /\ artifacts = 0
    /\ function_results = NoResult /\ probe_result = NoResult

ClassifyOff ==
    /\ tester = "none" /\ scenario = 0 /\ response = "" /\ analysis = NoResult

TrialOff ==
    /\ trial_tester = "none" /\ sentences_left = 0 /\ trial_pc = "off"
    /\ stream = <<>> /\ raised = FALSE /\ elapsed = 0 /\ first_token_time = <<>>
    /\ sentence_results = <<>> /\ valid_results = <<>>

Init ==
    /\ placeholder \in SUBSET CredentialFields
    /\ has_wav \in BOOLEAN
    /\ pc = "start"
    /\ unit = [u \in Units |-> "idle"]
    /\ probe = [u \in Units |-> "none"]
    /\ all_results = [u \in Units |-> NoResult]
    /\ results = [llm |-> <<>>, tts |-> <<>>, stt |-> <<>>, combinations |-> <<>>]
    /\ vram_usage = {}
    /\ timed_out = FALSE
    /\ reports = 0
    /\ notices = {}
    /\ ProbeOff
    /\ ClassifyOff
    /\ TrialOff

\* run() up to asyncio.gather: one task per eligible backend
Dispatch ==
    /\ pc = "start"
    /\ pc' = "gather"
    /\ unit' = [u \in Units |-> IF Eligible(u) THEN "pending" ELSE "skipped"]
    /\ UNCHANGED <<placeholder, has_wav, probe, all_results, results, vram_usage,
                   timed_out, reports, notices>>
    /\ UNCHANGED <<probeVars, classifyVars, trialVars>>

\* mutant: a unit whose probe failed is queued again
FinishOrRetry(u, result, outcome) ==
    /\ unit' = [unit EXCEPT ![u] = IF outcome = "failed" THEN "pending" ELSE "done"]
    /\ all_results' = [all_results EXCEPT ![u] = result]
    /\ probe' = [probe EXCEPT ![u] = outcome]

Finish(u, result, outcome) ==
    /\ unit' = [unit EXCEPT ![u] = "done"]
    /\ all_results' = [all_results EXCEPT ![u] = result]
    /\ probe' = [probe EXCEPT ![u] = outcome]

\* _test_llm_performance up to the gather of the sentence tasks
LlmStart(u) ==
    /\ pc = "gather" /\ u \in LlmNames /\ unit[u] = "pending"
    /\ IF u \in placeholder
       THEN /\ Finish(u, ErrorResult(u, "llm"), "unconfigured")
            /\ UNCHANGED vram_usage
       ELSE \E ev \in LlmStartEvents :
            IF ev = "started"
            THEN /\ unit' = [unit EXCEPT ![u] = "running"]
                 /\ vram_usage' = vram_usage \cup {u}
                 /\ UNCHANGED <<all_results, probe>>
            ELSE /\ Finish(u, ErrorResult(u, "llm"), "failed")
                 /\ UNCHANGED vram_usage
    /\ UNCHANGED <<placeholder, has_wav, pc, results, timed_out, reports, notices>>
    /\ UNCHANGED <<probeVars, classifyVars, trialVars>>

\* _test_llm_performance after the sentence tasks.  The measurements of a probe that
\* ends in an error are not returned: one value stands for all of them.
LlmFinish(u) ==
    /\ pc = "gather" /\ u \in LlmNames /\ unit[u] = "running"
    /\ \E ev \in LlmEvents, avg \in LlmAvgs, std \in LlmStds :
        /\ ev # "ok" => (avg = MinFirstToken /\ std = 0)
        /\ Finish(u, LlmProbeResult(u, ev, avg, std), IF ev = "ok" THEN "ok" ELSE "failed")
    /\ UNCHANGED <<placeholder, has_wav, pc, results, vram_usage, timed_out, reports, notices>>
    /\ UNCHANGED <<probeVars, classifyVars, trialVars>>

TtsStart(u) ==
    /\ pc = "gather" /\ u \in TtsNames /\ unit[u] = "pending"
    /\ unit' = [unit EXCEPT ![u] = "running"]
    /\ UNCHANGED <<placeholder, has_wav, pc, probe, all_results, results, vram_usage,
                   timed_out, reports, notices>>
    /\ UNCHANGED <<probeVars, classifyVars, trialVars>>

TtsFinish(u) ==
    /\ pc = "gather" /\ u \in TtsNames /\ unit[u] = "running"
    /\ \E ev \in TtsEvents, avg \in TtsAvgs :
        /\ ev # "ok" => avg = MaxTts
        /\ Finish(u, TtsProbeResult(u, ev, avg), IF ev = "ok" THEN "ok" ELSE "failed")
    /\ UNCHANGED <<placeholder, has_wav, pc, results, vram_usage, timed_out, reports, notices>>
    /\ UNCHANGED <<probeVars, classifyVars, trialVars>>

SttStart(u) ==
    /\ pc = "gather" /\ u \in SttNames /\ unit[u] = "pending"
    /\ unit' = [unit EXCEPT ![u] = "running"]
    /\ UNCHANGED <<placeholder, has_wav, pc, probe, all_results, results, vram_usage,
                   timed_out, reports, notices>>
    /\ UNCHANGED <<probeVars, classifyVars, trialVars>>

SttFinish(u) ==
    /\ pc = "gather" /\ u \in SttNames /\ unit[u] = "running"
    /\ \E ev \in SttEvents, avg \in SttAvgs :
        /\ ev # "ok" => avg = MaxStt
        /\ Finish(u, SttProbeResult(u, ev, avg), IF ev = "ok" THEN "ok" ELSE "failed")
    /\ UNCHANGED <<placeholder, has_wav, pc, results, vram_usage, timed_out, reports, notices>>
    /\ UNCHANGED <<probeVars, classifyVars, trialVars>>

\* asyncio.gather returned: run() processes the results and reports
GatherDone ==
    /\ pc = "gather"
    /\ \A u \in Units : unit[u] \in {"skipped", "done"}
    /\ Report(ProcessResults(AllTasks, all_results, results))
    /\ UNCHANGED <<placeholder, has_wav, unit, probe, all_results, vram_usage, timed_out>>
    /\ UNCHANGED <<probeVars, classifyVars, trialVars>>

\* the deadline of asyncio.wait_for expires while run() waits in asyncio.gather:
\* run() and its tasks are cancelled and the handler of run_with_timeout reports
Timeout ==
    /\ pc = "gather"
    /\ timed_out' = TRUE
    /\ unit' = [u \in Units |-> IF unit[u] \in {"pending", "running"} THEN "cancelled" ELSE unit[u]]
    /\ Report(results)
    /\ UNCHANGED <<placeholder, has_wav, probe, all_results, vram_usage>>
    /\ UNCHANGED <<probeVars, classifyVars, trialVars>>

Next ==
    \/ Dispatch
    \/ \E u \in Units : LlmStart(u)
    \/ \E u \in Units : LlmFinish(u)
    \/ \E u \in Units : TtsStart(u)
    \/ \E u \in Units : TtsFinish(u)
    \/ \E u \in Units : SttStart(u)
    \/ \E u \in Units : SttFinish(u)
    \/ GatherDone
    \/ Timeout

Spec == Init /\ [][Next]_vars

(***************************************************************************)
(* One probe, call by call (specification SpecProbe)                       *)
(***************************************************************************)
\* the largest number of configured test sentences
MaxSentences == 12
\* the largest number of test audio files
MaxWavs == 2
\* self.test_sentences[:3] in the synthesis probes
TtsTrials == 3
\* len(self.test_sentences) of the grid-search tester
GridSentences == 8

\* the probes of the benchmark tester, of the grid-search tester and the model test of
\* the function-calling test suite
ProbeKinds == {"llm", "tts", "stt", "grid_llm", "grid_tts", "function_calling"}

\* the answers of the local model service to _check_ollama_service: no connection,
\* /api/version not 200, /api/tags not 200, model not in the list, model in the list
ServiceStates == {"unreachable", "version_error", "tags_error", "missing", "installed"}

\* the latencies a call can take, in units of 0.01 s
Latencies == {1, 2, 9}

ProbeName == "backend"

Repeat(x, n) == [i \in 1 .. n |-> x]

\* what one backend call does: it returns a usable output ("ok"), returns no output
\* (no audio file, text None: "none"), returns the empty text ("blank") or raises
Outcome(o, t) == [outcome |-> o, time |-> t]

\* the generation backends: sentence calls that raise and sentence calls of each latency.
\* No statistic depends on the order of the trials, so the scripts are sorted.
LlmBackends ==
    {Repeat(Outcome("raise", 1), q[1]) \o Repeat(Outcome("ok", 1), q[2])
        \o Repeat(Outcome("ok", 2), q[3]) \o Repeat(Outcome("ok", 9), q[4]) :
     q \in {c \in (0 .. MaxSentences) \X (0 .. MaxSentences) \X (0 .. MaxSentences)
                    \X (0 .. MaxSentences) : c[1] + c[2] + c[3] + c[4] <= MaxSentences}}

\* the generation backends of the grid-search tester: GridSentences sentence calls
GridLlmBackends ==
    {Repeat(Outcome("raise", 1), k) \o Repeat(Outcome("ok", 1), GridSentences - k) :
     k \in 0 .. GridSentences}

TtsOutcomes == {Outcome("ok", 1), Outcome("ok", 2), Outcome("none", 1), Outcome("raise", 1)}

SttOutcomes == TtsOutcomes \cup {Outcome("blank", 1)}

TtsBackends == [1 .. TtsTrials + 1 -> TtsOutcomes]

SttBackends == [1 .. MaxWavs + 1 -> SttOutcomes]

GridTtsBackends == [1 .. TtsTrials -> TtsOutcomes]

Min2(a, b) == IF a <= b THEN a ELSE b

MaxOf(S) == CHOOSE m \in S : \A x \in S : x <= m

RECURSIVE Sum(_)
Sum(s) == IF s = <<>> THEN 0 ELSE Head(s) + Sum(Tail(s))

SumSq(s) == Sum([i \in DOMAIN s |-> s[i] * s[i]])

\* statistics.mean
Mean(s) == Rat(Sum(s), Len(s))

\* the square of statistics.stdev(s) if len(s) > 1 else 0
Variance(s) ==
    IF Len(s) > 1 THEN Rat(Len(s) * SumSq(s) - Sum(s) * Sum(s), Len(s) * (Len(s) - 1))
    ELSE Rat(0, 1)

\* t <= mean + 3 * stdev of the batch s, in integers:
\* n*t - S <= 3*n*stdev  and  stdev^2 = (n*Q - S^2) / (n*(n-1))
Kept(s, t) ==
    LET n == Len(s)
        d == n * t - Sum(s)
    IN  d <= 0 \/ (n > 1 /\ d * d * (n - 1) <= 9 * n * (n * SumSq(s) - Sum(s) * Sum(s)))

\* filtered_times
OutlierFilter(s) == SelectSeq(s, LAMBDA t : Kept(s, t))

\* mutant: the survivors are counted against the trials that entered the filter
UnstableAgainstFiltered(response_times, sentences) ==
    2 * Len(OutlierFilter(response_times)) < Len(response_times)

\* len(filtered_times) < len(test_sentences) * 0.5
Unstable(response_times, sentences) ==
    2 * Len(OutlierFilter(response_times)) < sentences

\* mutant: the survival rule is not applied
LlmStatisticsWithoutSurvivalRule(response_times, sentences) ==
    IF response_times = <<>>
    THEN ErrorResult(ProbeName, "llm")
    ELSE [name |-> ProbeName, type |-> "llm", errors |-> 0,
          avg_response_time |-> Mean(response_times),
          min_response_time |-> MinOf(Range(response_times)),
          max_response_time |-> MaxOf(Range(response_times)),
          var_response |-> Variance(response_times),
          success_rate |-> Rat(Len(response_times), sentences)]

\* the dict _test_llm_performance returns from the response times of valid_results.
\* first_token_times, response_lengths and tokens_per_second are averaged over the
\* same valid_results; the model follows response_times.
LlmStatistics(response_times, sentences) ==
    IF response_times = <<>> \/ Unstable(response_times, sentences)
    THEN ErrorResult(ProbeName, "llm")
    ELSE [name |-> ProbeName, type |-> "llm", errors |-> 0,
          avg_response_time |-> Mean(response_times),
          min_response_time |-> MinOf(Range(response_times)),
          max_response_time |-> MaxOf(Range(response_times)),
          var_response |-> Variance(response_times),
          success_rate |-> Rat(Len(response_times), sentences)]

\* the dict the synthesis and recognition probes return; statistics.mean of an empty
\* list raises, which the probe turns into an error result
TimeStatistics(kind, ts) ==
    IF ts = <<>> THEN ErrorResult(ProbeName, kind)
    ELSE [name |-> ProbeName, type |-> kind, errors |-> 0,
          avg_time |-> Mean(ts), min_time |-> MinOf(Range(ts)), max_time |-> MaxOf(Range(ts))]

BenchOff ==
    /\ placeholder = {} /\ has_wav = FALSE /\ pc = "off"
    /\ unit = [u \in Units |-> "idle"] /\ probe = [u \in Units |-> "none"]
    /\ all_results = [u \in Units |-> NoResult]
    /\ results = [llm |-> <<>>, tts |-> <<>>, stt |-> <<>>, combinations |-> <<>>]
    /\ vram_usage = {} /\ timed_out = FALSE /\ reports = 0 /\ notices = {}

ProbeInit ==
    /\ BenchOff
    /\ ClassifyOff
    /\ TrialOff
    /\ probed \in ProbeKinds
    /\ CASE probed = "llm" -> /\ backend \in LlmBackends
                              /\ test_count = Len(backend)
                              /\ service \in ServiceStates \cup {"none"}
         [] probed = "tts" -> /\ backend \in TtsBackends
                              /\ test_count \in 0 .. TtsTrials + 1
                              /\ service = "none"
         [] probed = "stt" -> /\ backend \in SttBackends
                              /\ test_count \in 0 .. MaxWavs
                              /\ service = "none"
         [] probed = "grid_llm" -> /\ backend \in GridLlmBackends
                                   /\ test_count = GridSentences
                                   /\ service \in ServiceStates \cup {"none"}
         [] probed = "grid_tts" -> /\ backend \in GridTtsBackends
                                   /\ test_count = GridSentences
                                   /\ service = "none"
         [] OTHER -> /\ backend = <<>>
                     /\ test_count = 0
                     /\ service = "none"
    /\ probe_pc = CASE probed \in {"llm", "grid_llm"} -> "check"
                    [] probed \in {"tts", "stt"} -> "warmup"
                    [] probed = "grid_tts" -> "trials"
                    [] OTHER -> "create"
    /\ listing = "none"
    /\ in_flight = 0
    /\ calls = <<>>
    /\ times = <<>>
    /\ filtered_times = <<>>
    /\ artifacts = 0
    /\ function_results = NoResult
    /\ probe_result = NoResult

\* what the probe is given
probeInput == <<probed, test_count, backend, service>>

\* the next call of the backend under test
NextCall == backend[Len(calls) + 1]

Issue(role) == calls' = Append(calls, [role |-> role, outcome |-> NextCall.outcome])

Return(result) == probe_result' = result /\ probe_pc' = "done"

\* text_to_speak wrote the audio file; nothing in the probe removes it
WriteFile == artifacts' = IF NextCall.outcome = "ok" THEN artifacts + 1 ELSE artifacts

\* _test_llm_performance up to the sentence trials: a backend named OllamaLLM is
\* tested only if _check_ollama_service returns True
OllamaCheck ==
    /\ probed = "llm" /\ probe_pc = "check"
    /\ listing' = service
    /\ IF service \in {"none", "installed"}
       THEN probe_pc' = "trials" /\ UNCHANGED probe_result
       ELSE Return(ErrorResult(ProbeName, "llm"))
    /\ UNCHANGED <<probeInput, in_flight, calls, times, filtered_times, artifacts,
                   function_results>>
    /\ UNCHANGED <<benchVars, classifyVars, trialVars>>

\* the grid-search _test_llm_performance up to the sentence trials: its
\* _check_ollama_service returns True also when /api/tags does not answer 200
GridOllamaCheck ==
    /\ probed = "grid_llm" /\ probe_pc = "check"
    /\ listing' = service
    /\ IF service \in {"installed", "tags_error"}
       THEN probe_pc' = "trials" /\ UNCHANGED probe_result
       ELSE Return(ErrorResult(ProbeName, "llm"))
    /\ UNCHANGED <<probeInput, in_flight, calls, times, filtered_times, artifacts,
                   function_results>>
    /\ UNCHANGED <<benchVars, classifyVars, trialVars>>

\* the task of one sentence starts to run.  _test_single_sentence awaits nothing that
\* suspends it, so the tasks that asyncio.gather created run one after the other.
LlmSentenceBegin ==
    /\ probed \in {"llm", "grid_llm"} /\ probe_pc = "trials"
    /\ in_flight = 0 /\ Len(calls) < test_count
    /\ in_flight' = in_flight + 1
    /\ UNCHANGED <<probeInput, probe_pc, listing, calls, times, filtered_times, artifacts,
                   function_results, probe_result>>
    /\ UNCHANGED <<benchVars, classifyVars, trialVars>>

\* _test_single_sentence returns: a sentence trial that raises returns None
LlmSentenceEnd ==
    /\ probed \in {"llm", "grid_llm"} /\ probe_pc = "trials"
    /\ in_flight > 0
    /\ in_flight' = in_flight - 1
    /\ Issue("content")
    /\ times' = IF NextCall.outcome = "ok" THEN Append(times, NextCall.time) ELSE times
    /\ UNCHANGED <<probeInput, probe_pc, listing, filtered_times, artifacts,
                   function_results, probe_result>>
    /\ UNCHANGED <<benchVars, classifyVars, trialVars>>

\* _test_llm_performance after the gather of the sentence trials
LlmReturn ==
    /\ probed = "llm" /\ probe_pc = "trials" /\ in_flight = 0 /\ Len(calls) = test_count
    /\ filtered_times' = OutlierFilter(times)
    /\ Return(LlmStatistics(times, test_count))
    /\ UNCHANGED <<probeInput, listing, in_flight, calls, times, artifacts, function_results>>
    /\ UNCHANGED <<benchVars, classifyVars, trialVars>>

\* the connection test of _test_tts_performance
TtsWarmup ==
    /\ probed = "tts" /\ probe_pc = "warmup"
    /\ Issue("warmup")
    /\ WriteFile
    /\ IF NextCall.outcome = "ok"
       THEN probe_pc' = "trials" /\ UNCHANGED probe_result
       ELSE Return(ErrorResult(ProbeName, "tts"))
    /\ UNCHANGED <<probeInput, listing, in_flight, times, filtered_times, function_results>>
    /\ UNCHANGED <<benchVars, classifyVars, trialVars>>

\* one pass of the loop over test_sentences[:3]
TtsTrial ==
    /\ probed = "tts" /\ probe_pc = "trials" /\ Len(times) < Min2(TtsTrials, test_count)
    /\ Issue("content")
    /\ WriteFile
    /\ times' = IF NextCall.outcome = "raise" THEN times ELSE Append(times, NextCall.time)
    /\ IF NextCall.outcome = "ok"
       THEN UNCHANGED <<probe_pc, probe_result>>
       ELSE Return(ErrorResult(ProbeName, "tts"))
    /\ UNCHANGED <<probeInput, listing, in_flight, filtered_times, function_results>>
    /\ UNCHANGED <<benchVars, classifyVars, trialVars>>

TtsReturn ==
    /\ probed = "tts" /\ probe_pc = "trials" /\ Len(times) = Min2(TtsTrials, test_count)
    /\ Return(TimeStatistics("tts", times))
    /\ UNCHANGED <<probeInput, listing, in_flight, calls, times, filtered_times, artifacts,
                   function_results>>
    /\ UNCHANGED <<benchVars, classifyVars, trialVars>>

\* the connection test of _test_stt_performance, with test_wav_list[0]
SttWarmup ==
    /\ probed = "stt" /\ probe_pc = "warmup"
    /\ IF test_count = 0
       THEN Return(ErrorResult(ProbeName, "stt")) /\ UNCHANGED calls
       ELSE /\ Issue("warmup")
            /\ IF NextCall.outcome \in {"ok", "blank"}
               THEN probe_pc' = "trials" /\ UNCHANGED probe_result
               ELSE Return(ErrorResult(ProbeName, "stt"))
    /\ UNCHANGED <<probeInput, listing, in_flight, times, filtered_times, artifacts,
                   function_results>>
    /\ UNCHANGED <<benchVars, classifyVars, trialVars>>

\* one pass of the loop over test_wav_list
SttTrial ==
    /\ probed = "stt" /\ probe_pc = "trials" /\ Len(times) < test_count
    /\ Issue("content")
    /\ times' = IF NextCall.outcome = "raise" THEN times ELSE Append(times, NextCall.time)
    /\ IF NextCall.outcome = "ok"
       THEN UNCHANGED <<probe_pc, probe_result>>
       ELSE Return(ErrorResult(ProbeName, "stt"))
    /\ UNCHANGED <<probeInput, listing, in_flight, filtered_times, artifacts,
                   function_results>>
    /\ UNCHANGED <<benchVars, classifyVars, trialVars>>

SttReturn ==
    /\ probed = "stt" /\ probe_pc = "trials" /\ Len(times) = test_count
    /\ Return(TimeStatistics("stt", times))
    /\ UNCHANGED <<probeInput, listing, in_flight, calls, times, filtered_times, artifacts,
                   function_results>>
    /\ UNCHANGED <<benchVars, classifyVars, trialVars>>

\* one pass of the loop of the grid-search _test_tts_performance: a trial without
\* audio file is measured like any other
GridTtsTrial ==
    /\ probed = "grid_tts" /\ probe_pc = "trials" /\ Len(times) < Min2(TtsTrials, test_count)
    /\ Issue("content")
    /\ WriteFile
    /\ IF NextCall.outcome = "raise"
       THEN Return(ErrorResult(ProbeName, "tts")) /\ UNCHANGED times
       ELSE times' = Append(times, NextCall.time) /\ UNCHANGED <<probe_pc, probe_result>>
    /\ UNCHANGED <<probeInput, listing, in_flight, filtered_times, function_results>>
    /\ UNCHANGED <<benchVars, classifyVars, trialVars>>

GridTtsReturn ==
    /\ probed = "grid_tts" /\ probe_pc = "trials" /\ Len(times) = Min2(TtsTrials, test_count)
    /\ Return(TimeStatistics("tts", times))
    /\ UNCHANGED <<probeInput, listing, in_flight, calls, times, filtered_times, artifacts,
                   function_results>>
    /\ UNCHANGED <<benchVars, classifyVars, trialVars>>

\* the probe is suspended in an await that gives control back to the event loop: the
\* query of the model service, a call of the synthesis or recognition backend that is
\* about to be issued, or the gather whose sentence tasks have all run (there the
\* interpreter's wait_for decides whether the cancellation still arrives)
Suspended ==
    \/ probed = "llm" /\ probe_pc = "check" /\ service # "none"
    \/ probed = "llm" /\ probe_pc = "trials" /\ in_flight = 0
        /\ test_count > 0 /\ Len(calls) = test_count
    \/ probed = "tts" /\ probe_pc = "warmup"
    \/ probed = "tts" /\ probe_pc = "trials" /\ Len(times) < Min2(TtsTrials, test_count)
    \/ probed = "stt" /\ probe_pc = "warmup" /\ test_count > 0
    \/ probed = "stt" /\ probe_pc = "trials" /\ Len(times) < test_count

\* the deadline of run_with_timeout expires: the event loop cancels the probe of the
\* benchmark tester at the await it is suspended in, and what it measured is discarded
Deadline ==
    /\ Suspended
    /\ probe_pc' = "cancelled"
    /\ UNCHANGED <<probeInput, listing, in_flight, calls, times, filtered_times, artifacts,
                   function_results, probe_result>>
    /\ UNCHANGED <<benchVars, classifyVars, trialVars>>


(***************************************************************************)
(* The response classifiers (specification SpecClassify)                   *)
(***************************************************************************)
\* keyword in response_lower
Contains(text, pattern) ==
    \E i \in 1 .. (Len(text) - Len(pattern) + 1) : SubSeq(text, i, i + Len(pattern) - 1) = pattern

Letters == <<
    <<"A", "a">>, <<"B", "b">>, <<"C", "c">>, <<"D", "d">>, <<"E", "e">>, <<"F",
    "f">>, <<"G", "g">>, <<"H", "h">>, <<"I", "i">>, <<"J", "j">>, <<"K", "k">>,
    <<"L", "l">>, <<"M", "m">>, <<"N", "n">>, <<"O", "o">>, <<"P", "p">>, <<"Q",
    "q">>, <<"R", "r">>, <<"S", "s">>, <<"T", "t">>, <<"U", "u">>, <<"V", "v">>,
    <<"W", "w">>, <<"X", "x">>, <<"Y", "y">>, <<"Z", "z">>
    >>

LowerChar(ch) ==
    IF \E i \in DOMAIN Letters : Letters[i][1] = ch
    THEN Letters[CHOOSE i \in DOMAIN Letters : Letters[i][1] = ch][2]
    ELSE ch

UpperChar(ch) ==
    IF \E i \in DOMAIN Letters : Letters[i][2] = ch
    THEN Letters[CHOOSE i \in DOMAIN Letters : Letters[i][2] = ch][1]
    ELSE ch

\* str.lower
RECURSIVE Lower(_)
Lower(text) ==
    IF text = "" THEN "" ELSE LowerChar(SubSeq(text, 1, 1)) \o Lower(SubSeq(text, 2, Len(text)))

RECURSIVE Upper(_)
Upper(text) ==
    IF text = "" THEN "" ELSE UpperChar(SubSeq(text, 1, 1)) \o Upper(SubSeq(text, 2, Len(text)))

\* how many patterns of the list occur in the text
Matches(patterns, text) == Len(SelectSeq(patterns, LAMBDA pattern : Contains(text, pattern)))

\* function_test_scenarios of the grid-search tester
GridScenarios == <<
    [prompt |-> "What's the weather like in San Francisco?",
     expected_function |-> "get_weather",
     function_keywords |-> <<"weather", "temperature", "forecast">>],
    [prompt |-> "Play some jazz music",
     expected_function |-> "play_music",
     function_keywords |-> <<"music", "play", "audio">>],
    [prompt |-> "Tell me the latest news",
     expected_function |-> "get_news",
     function_keywords |-> <<"news", "headlines", "article">>],
    [prompt |-> "What time is it?",
     expected_function |-> "get_time",
     function_keywords |-> <<"time", "clock", "hour">>] >>

GridStructuredPatterns == <<"function", "call", "api", "tool", "action">>

\* _analyze_function_response of the grid-search tester
GridAnalyze(reply, sc) ==
    LET response_lower == Lower(reply)
        score == 2 * Matches(sc.function_keywords, response_lower)
                    + Matches(GridStructuredPatterns, response_lower)
    IN  [score |-> score, detected |-> score >= 3]

\* test_scenarios of the function-calling test suite
SuiteScenarios == <<
    [name |-> "Weather Query", expected_function |-> "get_weather"],
    [name |-> "Smart Home Control", expected_function |-> "home_control"],
    [name |-> "Music Playback", expected_function |-> "play_music"],
    [name |-> "News Request", expected_function |-> "get_news"],
    [name |-> "Temperature Control", expected_function |-> "temperature_control"],
    [name |-> "Time Query", expected_function |-> "get_time"],
    [name |-> "Device Status", expected_function |-> "device_status"],
    [name |-> "Complex Control", expected_function |-> "multiple_functions"] >>

JsonPatterns == <<"get_weather", "play_music", "get_news", "home_control",
                  "temperature_control", "get_time", "device_status">>

FunctionKeywords == <<"function", "call", "invoke", "execute", "api",
                      "weather api", "music player", "news feed", "smart home">>

SuiteStructuredPatterns == <<"{", "}", "[", "]", "function_name", "parameters">>

\* the special case for direct appropriate responses
DirectResponse(name, response_lower) ==
    CASE name = "Weather Query" ->
            Matches(<<"weather", "temperature", "forecast">>, response_lower) > 0
      [] name = "Music Playback" -> Matches(<<"music", "play", "song">>, response_lower) > 0
      [] name = "News Request" -> Matches(<<"news", "article", "update">>, response_lower) > 0
      [] OTHER -> FALSE

\* _analyze_function_response of the function-calling test suite
SuiteAnalyze(reply, sc) ==
    LET response_lower == Lower(reply)
        score == 3 * Matches(JsonPatterns, response_lower)
                    + 2 * Matches(FunctionKeywords, response_lower)
                    + Matches(SuiteStructuredPatterns, response_lower)
                    + (IF DirectResponse(sc.name, response_lower) THEN 2 ELSE 0)
    IN  [score |-> score, detected |-> score >= 3]

WeatherReply == "The weather today is sunny with temperature around 20 degrees."

\* the replies: an intent name in lower or upper case, or a sentence, inside a frame
IntentNames == {SuiteScenarios[i].expected_function : i \in DOMAIN SuiteScenarios}
                    \cup {GridScenarios[i].expected_function : i \in DOMAIN GridScenarios}

Cores == IntentNames \cup {Upper(n) : n \in IntentNames}
            \cup {WeatherReply, "It is 5 o'clock.", "Here is some jazz."}

Prefixes == {"", "I will call "}

Suffixes == {"", " {}"}

Replies == {pre \o core \o post : pre \in Prefixes, core \in Cores, post \in Suffixes}

ClassifyInit ==
    /\ BenchOff
    /\ ProbeOff
    /\ TrialOff
    /\ tester \in {"grid_search", "function_calling"}
    /\ scenario \in IF tester = "grid_search" THEN DOMAIN GridScenarios ELSE DOMAIN SuiteScenarios
    /\ response \in Replies
    /\ analysis = NoResult

GridClassify ==
    /\ tester = "grid_search" /\ analysis = NoResult
    /\ analysis' = GridAnalyze(response, GridScenarios[scenario])
    /\ UNCHANGED <<tester, scenario, response>>
    /\ UNCHANGED <<benchVars, probeVars, trialVars>>

SuiteClassify ==
    /\ tester = "function_calling" /\ analysis = NoResult
    /\ analysis' = SuiteAnalyze(response, SuiteScenarios[scenario])
    /\ UNCHANGED <<tester, scenario, response>>
    /\ UNCHANGED <<benchVars, probeVars, trialVars>>

ClassifyNext ==
    \/ GridClassify
    \/ SuiteClassify

SpecClassify == ClassifyInit /\ [][ClassifyNext]_vars

(***************************************************************************)
(* The function-calling tests and the specification of the probes          *)
(***************************************************************************)
\* what a backend does with the prompt of one function-calling scenario: it raises,
\* or it replies
FunctionReplies == {WeatherReply, "I will call get_weather {}"}

FunctionEvents == {[raised |-> TRUE, reply |-> ""]}
                    \cup {[raised |-> FALSE, reply |-> r] : r \in FunctionReplies}

\* function_results / model_results before the first scenario
EmptyReport(total_tests) ==
    [total_tests |-> total_tests, successful_calls |-> 0, scenarios |-> <<>>]

\* the entry of one scenario: a scenario whose call raised has function_detected False
ScenarioEntry(index, ev, detected) ==
    [scenario |-> index, raised |-> ev.raised, reply |-> ev.reply,
     function_detected |-> ~ev.raised /\ detected]

RecordScenarioCountingEvery(report, entry) ==
    [report EXCEPT !.scenarios = Append(@, entry), !.successful_calls = @ + 1]

\* one pass of the loop over the scenarios, with its try / except
RecordScenario(report, entry) ==
    [report EXCEPT !.scenarios = Append(@, entry),
                   !.successful_calls = IF entry.function_detected THEN @ + 1 ELSE @]

\* function_results["success_rate"] = successful_calls / total_tests
WithSuccessRate(report) ==
    [total_tests |-> report.total_tests,
     successful_calls |-> report.successful_calls,
     scenarios |-> report.scenarios,
     success_rate |-> Rat(report.successful_calls, report.total_tests)]

\* the dict of test_model_function_calling when create_llm_instance raised
CreationFailed(total_tests) ==
    [total_tests |-> total_tests, successful_calls |-> 0,
     success_rate |-> Rat(0, 1), error |-> TRUE]

\* the dict the grid-search _test_llm_performance returns: statistics of all valid
\* trials, and the function-calling report
GridLlmStatistics(response_times, sentences, report) ==
    [name |-> ProbeName, type |-> "llm", errors |-> 0,
     avg_response_time |-> Mean(response_times),
     min_response_time |-> MinOf(Range(response_times)),
     max_response_time |-> MaxOf(Range(response_times)),
     success_rate |-> Rat(Len(response_times), sentences),
     function_calling_success_rate |-> report.success_rate]

\* the grid-search _test_llm_performance after the gather of the sentence trials
GridLlmGathered ==
    /\ probed = "grid_llm" /\ probe_pc = "trials" /\ in_flight = 0
    /\ Len(calls) = test_count
    /\ IF times = <<>>
       THEN Return(ErrorResult(ProbeName, "llm")) /\ UNCHANGED function_results
       ELSE /\ function_results' = EmptyReport(Len(GridScenarios))
            /\ probe_pc' = "function_calling"
            /\ UNCHANGED probe_result
    /\ UNCHANGED <<probeInput, listing, in_flight, calls, times, filtered_times, artifacts>>
    /\ UNCHANGED <<benchVars, classifyVars, trialVars>>

\* one pass of the loop of _test_function_calling
GridFunctionScenario ==
    /\ probed = "grid_llm" /\ probe_pc = "function_calling"
    /\ Len(function_results.scenarios) < Len(GridScenarios)
    /\ \E ev \in FunctionEvents :
        LET index == Len(function_results.scenarios) + 1
            detected == GridAnalyze(ev.reply, GridScenarios[index]).detected
        IN  function_results' = RecordScenario(function_results,
                                               ScenarioEntry(index, ev, detected))
    /\ UNCHANGED <<probeInput, probe_pc, listing, in_flight, calls, times, filtered_times,
                   artifacts, probe_result>>
    /\ UNCHANGED <<benchVars, classifyVars, trialVars>>

\* _test_function_calling returns, and the grid-search _test_llm_performance after it
GridLlmReturn ==
    /\ probed = "grid_llm" /\ probe_pc = "function_calling"
    /\ Len(function_results.scenarios) = Len(GridScenarios)
    /\ function_results' = WithSuccessRate(function_results)
    /\ Return(GridLlmStatistics(times, test_count, function_results'))
    /\ UNCHANGED <<probeInput, listing, in_flight, calls, times, filtered_times, artifacts>>
    /\ UNCHANGED <<benchVars, classifyVars, trialVars>>

\* test_model_function_calling up to the loop: create_llm_instance may raise
SuiteCreate ==
    /\ probed = "function_calling" /\ probe_pc = "create"
    /\ \E created \in BOOLEAN :
        IF created
        THEN /\ function_results' = EmptyReport(Len(SuiteScenarios))
             /\ probe_pc' = "function_calling"
        ELSE /\ function_results' = CreationFailed(Len(SuiteScenarios))
             /\ probe_pc' = "done"
    /\ UNCHANGED <<probeInput, listing, in_flight, calls, times, filtered_times, artifacts,
                   probe_result>>
    /\ UNCHANGED <<benchVars, classifyVars, trialVars>>

\* one pass of the loop of test_model_function_calling
SuiteFunctionScenario ==
    /\ probed = "function_calling" /\ probe_pc = "function_calling"
    /\ Len(function_results.scenarios) < Len(SuiteScenarios)
    /\ \E ev \in FunctionEvents :
        LET index == Len(function_results.scenarios) + 1
            detected == SuiteAnalyze(ev.reply, SuiteScenarios[index]).detected
        IN  function_results' = RecordScenario(function_results,
                                               ScenarioEntry(index, ev, detected))
    /\ UNCHANGED <<probeInput, probe_pc, listing, in_flight, calls, times, filtered_times,
                   artifacts, probe_result>>
    /\ UNCHANGED <<benchVars, classifyVars, trialVars>>

\* test_model_function_calling returns model_results
SuiteReturn ==
    /\ probed = "function_calling" /\ probe_pc = "function_calling"
    /\ Len(function_results.scenarios) = Len(SuiteScenarios)
    /\ function_results' = WithSuccessRate(function_results)
    /\ probe_pc' = "done"
    /\ UNCHANGED <<probeInput, listing, in_flight, calls, times, filtered_times, artifacts,
                   probe_result>>
    /\ UNCHANGED <<benchVars, classifyVars, trialVars>>

ProbeNext ==
    \/ OllamaCheck
    \/ GridOllamaCheck
    \/ LlmSentenceBegin
    \/ LlmSentenceEnd
    \/ LlmReturn
    \/ GridLlmGathered
    \/ GridFunctionScenario
    \/ GridLlmReturn
    \/ SuiteCreate
    \/ SuiteFunctionScenario
    \/ SuiteReturn
    \/ TtsWarmup
    \/ TtsTrial
    \/ TtsReturn
    \/ SttWarmup
    \/ SttTrial
    \/ SttReturn
    \/ GridTtsTrial
    \/ GridTtsReturn
    \/ Deadline

SpecProbe == ProbeInit /\ [][ProbeNext]_vars

(***************************************************************************)
(* One sentence trial, increment by increment: _test_single_sentence of    *)
(* the benchmark tester and of the grid-search tester                      *)
(***************************************************************************)
MaxTrialSentences == 2
MaxChunks == 2

\* the increments a backend yields: empty, whitespace only, text
Chunks == {"", " \n", " ok"}

Whitespace == {" ", "\n", "\t"}

RECURSIVE LStrip(_)
LStrip(s) ==
    IF s # "" /\ SubSeq(s, 1, 1) \in Whitespace THEN LStrip(SubSeq(s, 2, Len(s))) ELSE s

RECURSIVE RStrip(_)
RStrip(s) ==
    IF s # "" /\ SubSeq(s, Len(s), Len(s)) \in Whitespace
    THEN RStrip(SubSeq(s, 1, Len(s) - 1))
    ELSE s

\* str.strip()
Strip(s) == RStrip(LStrip(s))

NonEmpty(chunk) == chunk # ""

\* chunk.strip() != "", and the truth value of chunk.strip()
NonBlank(chunk) == Strip(chunk) # ""

\* the dict _test_single_sentence returns
Measurement(first, response_time) ==
    [first_token_time |-> first, response_time |-> response_time]

TrialInit ==
    /\ BenchOff
    /\ ProbeOff
    /\ ClassifyOff
    /\ trial_tester \in {"benchmark", "grid_search"}
    /\ sentences_left \in 1 .. MaxTrialSentences
    /\ trial_pc = "idle"
    /\ stream = <<>>
    /\ raised = FALSE
    /\ elapsed = 0
    /\ first_token_time = <<>>
    /\ sentence_results = <<>>
    /\ valid_results = <<>>

\* _test_single_sentence takes start_time and calls llm.response
TrialStart ==
    /\ trial_pc = "idle" /\ sentences_left > 0
    /\ trial_pc' = "streaming"
    /\ stream' = <<>>
    /\ raised' = FALSE
    /\ elapsed' = 0
    /\ first_token_time' = <<>>
    /\ UNCHANGED <<trial_tester, sentences_left, sentence_results, valid_results>>
    /\ UNCHANGED <<benchVars, probeVars, classifyVars>>

\* one pass of the loop over the increments, some time after the previous one
TrialChunk ==
    /\ trial_pc = "streaming" /\ Len(stream) < MaxChunks
    /\ \E chunk \in Chunks :
        /\ elapsed' = elapsed + 1
        /\ stream' = Append(stream, [chunk |-> chunk, at |-> elapsed'])
        /\ first_token_time' = IF first_token_time = <<>> /\ NonBlank(chunk)
                               THEN <<elapsed'>>
                               ELSE first_token_time
    /\ UNCHANGED <<trial_tester, sentences_left, trial_pc, raised, sentence_results,
                   valid_results>>
    /\ UNCHANGED <<benchVars, probeVars, classifyVars>>

\* llm.response raises: the trial returns None
TrialRaise ==
    /\ trial_pc = "streaming"
    /\ raised' = TRUE
    /\ sentence_results' = Append(sentence_results, NoResult)
    /\ sentences_left' = sentences_left - 1
    /\ trial_pc' = "idle"
    /\ UNCHANGED <<trial_tester, stream, elapsed, first_token_time, valid_results>>
    /\ UNCHANGED <<benchVars, probeVars, classifyVars>>

\* the increments are exhausted: the trial returns its measurement
TrialEnd ==
    /\ trial_pc = "streaming"
    /\ \E dt \in 0 .. 1 :
        LET response_time == elapsed + dt
            first == IF first_token_time = <<>> THEN response_time ELSE first_token_time[1]
        IN  /\ elapsed' = response_time
            /\ first_token_time' = <<first>>
            /\ sentence_results' = Append(sentence_results, Measurement(first, response_time))
    /\ sentences_left' = sentences_left - 1
    /\ trial_pc' = "idle"
    /\ UNCHANGED <<trial_tester, stream, raised, valid_results>>
    /\ UNCHANGED <<benchVars, probeVars, classifyVars>>

\* _test_llm_performance after the gather: the trials that returned None are left out
TrialGather ==
    /\ trial_pc = "idle" /\ sentences_left = 0
    /\ valid_results' = SelectSeq(sentence_results, LAMBDA r : r # NoResult)
    /\ trial_pc' = "done"
    /\ UNCHANGED <<trial_tester, sentences_left, stream, raised, elapsed, first_token_time,
                   sentence_results>>
    /\ UNCHANGED <<benchVars, probeVars, classifyVars>>

TrialNext ==
    \/ TrialStart
    \/ TrialChunk
    \/ TrialRaise
    \/ TrialEnd
    \/ TrialGather

SpecTrial == TrialInit /\ [][TrialNext]_vars

(***************************************************************************)
(* Vocabulary of the properties                                            *)
(***************************************************************************)
Combinations == results.combinations

Triple(c) == <<c.llm, c.tts, c.stt>>

Triples(cs) == [i \in DOMAIN cs |-> Triple(cs[i])]

\* the final report was generated (_generate_combinations, _print_results, _export_to_csv)
Reported == pc = "done"

\* the backend has a row in the result tables of the final report
InReport(u) == u \in Keys(results[KindOf(u)])

\* the unit of work returned an error-free ProbeResult
ReturnedOk(u) == unit[u] = "done" /\ all_results[u].type = KindOf(u) /\ all_results[u].errors = 0

\* the unit of work returned a ProbeResult with error count 1
ReturnedError(u) == unit[u] = "done" /\ all_results[u].type = KindOf(u) /\ all_results[u].errors = 1

\* the ProbeResults of a map that have error count 0
ErrorFreeKeys(kind) == {e.key : e \in {x \in Range(results[kind]) : x.val.errors = 0}}

\* the generation backends of the map that _generate_combinations ranks
RankedLlmKeys ==
    {k \in ErrorFreeKeys("llm") : Get(results.llm, k).avg_first_token_time >= MinFirstToken}

PositionOf(llm, tts, stt) ==
    CHOOSE i \in DOMAIN Combinations : Triple(Combinations[i]) = <<llm, tts, stt>>

Listed(llm, tts, stt) == \E i \in DOMAIN Combinations : Triple(Combinations[i]) = <<llm, tts, stt>>

(***************************************************************************)
(* C1: when the deadline expires while a unit is still running, every unit *)
(* that had finished without error has its ProbeResult in the results maps *)
(* of the final report.                                                    *)
(***************************************************************************)
C1_FinishedBeforeDeadlineReported ==
    (Reported /\ timed_out /\ \E v \in Units : unit[v] = "cancelled")
        => \A u \in Units : ReturnedOk(u) => InReport(u)

(***************************************************************************)
(* C2: after the deadline expired, every unit that had produced no         *)
(* ProbeResult is marked in the final report as incomplete and is not      *)
(* recorded as an error ProbeResult.                                       *)
(***************************************************************************)
C2_IncompleteMarkedInReport ==
    (Reported /\ timed_out)
        => \A u \in Units : unit[u] = "cancelled"
                => (InReport(u) /\ Get(results[KindOf(u)], u).errors = 0)

(***************************************************************************)
(* C3: a failure inside one unit becomes a result with error count 1 and   *)
(* does not propagate: when asyncio.gather returns, every dispatched unit  *)
(* has run to completion, a failed one has returned a dict with errors 1   *)
(* and every error-free ProbeResult is in the results map of its kind.     *)
(***************************************************************************)
C3_FailureIsolated ==
    (pc \in {"done", "crashed"} /\ ~timed_out)
        => \A u \in Units : unit[u] # "skipped"
                => /\ unit[u] = "done"
                   /\ probe[u] = "failed" => ReturnedError(u)
                   /\ probe[u] = "ok" => (ReturnedOk(u) /\ InReport(u)
                                          /\ Get(results[KindOf(u)], u) = all_results[u])

C3_Witness ==
    /\ Reported /\ ~timed_out
    /\ \E u, v \in LlmNames : probe[u] = "failed" /\ probe[v] = "ok" /\ InReport(v)
    /\ \E u, v \in TtsNames : probe[u] = "failed" /\ probe[v] = "ok" /\ InReport(v)

(***************************************************************************)
(* C4: every backend whose probe was started and failed is visible as a    *)
(* failed backend in the final report.                                     *)
(***************************************************************************)
C4_FailuresVisibleInReport ==
    Reported => \A u \in Units : probe[u] = "failed"
                    => (InReport(u) /\ Get(results[KindOf(u)], u).errors > 0)

C6_NoFailedBackendRanked ==
    \A i \in DOMAIN Combinations :
        \A u \in {Combinations[i].llm, Combinations[i].tts, Combinations[i].stt} :
            ReturnedOk(u) /\ probe[u] = "ok"

C6_Witness ==
    /\ Reported /\ Combinations # <<>>
    /\ \E u \in LlmNames : ReturnedError(u)
    /\ \E u \in TtsNames : ReturnedError(u)
    /\ \E u \in SttNames : ReturnedError(u)

(***************************************************************************)
(* C7: the combination list is sorted ascending by score.                  *)
(***************************************************************************)
C7_SortedAscending ==
    \A i \in DOMAIN Combinations :
        i + 1 \in DOMAIN Combinations
            => RatLeq(Combinations[i].score, Combinations[i + 1].score)

C7_Witness ==
    /\ Reported
    /\ Len(Combinations) >= 4
    /\ Combinations # LoopCombinations(results)
    /\ \E i \in DOMAIN Combinations :
         i + 1 \in DOMAIN Combinations
            /\ RatLess(Combinations[i].score, Combinations[i + 1].score)

(***************************************************************************)
(* C8: score = 0.7 * (0.7 * llm_score + 0.3 * llm_stability)               *)
(*           + 0.3 * tts_score + 0.3 * stt_score, with llm_score,          *)
(* tts_score, stt_score the mean latency over the minimum mean latency of  *)
(* the ranked backends of the kind and llm_stability = stdev / mean.       *)
(* Over the common denominator 100 * minA * a * minT * minS:               *)
(*   score = (49*a*a*minT*minS + 21*sd*minA*minT*minS                      *)
(*            + 30*t*minA*a*minS + 30*s*minA*a*minT) / (100*minA*a*minT*minS) *)
(***************************************************************************)
IsMinimum(m, S) == m \in S /\ \A x \in S : m <= x

C8_ScoreFormula ==
    \A i \in DOMAIN Combinations :
        LET c == Combinations[i]
            a == Get(results.llm, c.llm).avg_first_token_time
            sd == Get(results.llm, c.llm).std_first_token
            t == Get(results.tts, c.tts).avg_synthesis_time
            s == Get(results.stt, c.stt).avg_processing_time
        IN  \E minA \in LlmAvgs, minT \in TtsAvgs, minS \in SttAvgs :
                /\ IsMinimum(minA, {Get(results.llm, k).avg_first_token_time : k \in RankedLlmKeys})
                /\ IsMinimum(minT, {Get(results.tts, k).avg_synthesis_time : k \in ErrorFreeKeys("tts")})
                /\ IsMinimum(minS, {Get(results.stt, k).avg_processing_time : k \in ErrorFreeKeys("stt")})
                /\ minT > 0 /\ minS > 0
                /\ LET den == 100 * minA * a * minT * minS
                       num == 49 * a * a * minT * minS + 21 * sd * minA * minT * minS
                              + 30 * t * minA * a * minS + 30 * s * minA * a * minT
                   IN  /\ den % c.score.d = 0
                       /\ c.score.n * (den \div c.score.d) = num

C8_Witness ==
    /\ Reported
    /\ \E i \in DOMAIN Combinations :
        LET c == Combinations[i]
        IN  /\ Get(results.llm, c.llm).std_first_token > 0
            /\ \E k \in RankedLlmKeys :
                 Get(results.llm, k).avg_first_token_time
                     < Get(results.llm, c.llm).avg_first_token_time
            /\ \E k \in ErrorFreeKeys("tts") :
                 Get(results.tts, k).avg_synthesis_time
                     < Get(results.tts, c.tts).avg_synthesis_time

(***************************************************************************)
(* C9 as claimed: for error-free generation backends A and B where A has   *)
(* the lower mean first-signal latency and the lower stdev/mean ratio, and *)
(* any synthesis/recognition pair, the combination with A is in the ranked *)
(* list with a strictly lower score than, and before, the one with B.      *)
(***************************************************************************)
FasterAndSteadier(A, B) ==
    LET ra == Get(results.llm, A)
        rb == Get(results.llm, B)
    IN  /\ ra.avg_first_token_time < rb.avg_first_token_time
        /\ ra.std_first_token * rb.avg_first_token_time
             < rb.std_first_token * ra.avg_first_token_time

RankedBefore(A, B, t, s) ==
    /\ Listed(A, t, s) /\ Listed(B, t, s)
    /\ RatLess(Combinations[PositionOf(A, t, s)].score, Combinations[PositionOf(B, t, s)].score)
    /\ PositionOf(A, t, s) < PositionOf(B, t, s)

Reorderings(d) == {[i \in DOMAIN d |-> d[f[i]]] : f \in Permutations(DOMAIN d)}

C10_ReorderingInvariant ==
    Reported =>
        \A pl \in Reorderings(results.llm), pt \in Reorderings(results.tts),
           ps \in Reorderings(results.stt) :
            LET permuted == [llm |-> pl, tts |-> pt, stt |-> ps, combinations |-> <<>>]
            IN  Triples(GenerateCombinations(permuted).results.combinations)
                    = Triples(Combinations)

(***************************************************************************)
(* C11: a report made while some kind has no backend to rank has an empty  *)
(* combination list and says so: _print_results prints the notice that no  *)
(* combination is available, and prints it in no other report; a kind      *)
(* without error-free ProbeResult has its own notice.                      *)
(***************************************************************************)
Kinds == {"llm", "tts", "stt"}

\* the backends of a kind that _generate_combinations ranks
RankedKeys(kind) == IF kind = "llm" THEN RankedLlmKeys ELSE ErrorFreeKeys(kind)

FieldsOf(u) == IF u = "CozeLLM" THEN {u, CozeIds} ELSE {u}

C17_PlaceholderNeverProbed ==
    \A u \in Units : FieldsOf(u) \cap placeholder # {}
        => (probe[u] = "none" /\ all_results[u] = NoResult)

(***************************************************************************)
(* C18: a unit of work that has ended (returned, failed, cancelled by the  *)
(* deadline) or was never dispatched does not change any more: its probe   *)
(* is not started again and its recorded outcome and result stay as they   *)
(* are.                                                                    *)
(***************************************************************************)
C18_ProbedAtMostOnce ==
    [][\A u \in Units :
        /\ unit[u] \in {"skipped", "done", "cancelled"} => unit'[u] = unit[u]
        /\ unit[u] = "running" => unit'[u] \in {"running", "done", "cancelled"}
        /\ probe[u] # "none" => probe'[u] = probe[u]
        /\ all_results[u] # NoResult => all_results'[u] = all_results[u]]_vars

C18_Witness ==
    /\ Reported /\ timed_out
    /\ \E u, v, w \in Units :
        /\ unit[u] = "cancelled" /\ probe[u] = "none"
        /\ unit[v] = "done" /\ probe[v] = "failed"
        /\ unit[w] = "done" /\ probe[w] = "ok"

(***************************************************************************)
(* C19: the shared state (the result maps and the VRAM snapshot map) holds *)
(* an entry for a backend only when the unit of work of that backend has   *)
(* completed without error.                                                *)
(***************************************************************************)
C19_SharedStateOnlyAfterCompletion ==
    \A u \in Units : (InReport(u) \/ u \in vram_usage) => ReturnedOk(u)

(***************************************************************************)
(* C12: in the result of the generation probe no trial beyond              *)
(* mean + 3*stdev of the batch contributes to the statistics: mean,        *)
(* minimum, maximum and variance of the response time are those of         *)
(* filtered_times.                                                         *)
(***************************************************************************)
LlmProbeDone == probed = "llm" /\ probe_pc = "done"

C12_OutliersExcluded ==
    (LlmProbeDone /\ probe_result.errors = 0) =>
        /\ probe_result.avg_response_time = Rat(Sum(filtered_times), Len(filtered_times))
        /\ IsMinimum(probe_result.min_response_time, Range(filtered_times))
        /\ probe_result.max_response_time \in Range(filtered_times)
        /\ \A i \in DOMAIN filtered_times : filtered_times[i] <= probe_result.max_response_time
        /\ probe_result.var_response = Variance(filtered_times)

(***************************************************************************)
(* C13 as claimed: the generation probe ends with error count 1 by the     *)
(* survival rule exactly when fewer than half of the trials that entered   *)
(* the outlier filter survive it.                                          *)
(***************************************************************************)
C13_SurvivalAgainstFilterInput ==
    (LlmProbeDone /\ times # <<>>) =>
        (probe_result.errors = 1 <=> 2 * Len(filtered_times) < Len(times))

(***************************************************************************)
(* C13 amended: the generation probe ends with error count 1 by the        *)
(* survival rule exactly when the trials that survive the outlier filter   *)
(* are fewer than half of the configured test sentences.                   *)
(***************************************************************************)
C13_SurvivalAgainstSentences ==
    (LlmProbeDone /\ times # <<>>) =>
        (probe_result.errors = 1 <=> 2 * Len(filtered_times) < test_count)

\* two of five sentence trials succeed, both survive the filter, the probe is rejected
C13_Witness ==
    /\ LlmProbeDone /\ test_count = 5 /\ Len(times) = 2 /\ filtered_times = times
    /\ probe_result.errors = 1

(***************************************************************************)
(* C14: filtering the filtered response times of a generation probe again, *)
(* with mean and stdev of the filtered batch, removes nothing.             *)
(***************************************************************************)
C14_FilterIdempotent ==
    LlmProbeDone => OutlierFilter(filtered_times) = filtered_times

(***************************************************************************)
(* C20: the first backend call of every probe is a warm-up call, content   *)
(* calls follow only a warm-up call that succeeded, a probe whose first    *)
(* call did not succeed ends with error count 1 and the statistics cover   *)
(* the content calls only.                                                 *)
(***************************************************************************)
ContentCalls == SelectSeq(calls, LAMBDA c : c.role = "content")

C20_WarmupFirst ==
    /\ calls # <<>> => calls[1].role = "warmup"
    /\ ContentCalls # <<>> => (calls[1].role = "warmup" /\ calls[1].outcome = "ok")
    /\ (probe_pc = "done" /\ calls # <<>> /\ calls[1].outcome \notin {"ok", "blank"})
            => probe_result.errors = 1
    /\ Len(times) <= Len(ContentCalls)

(***************************************************************************)
(* C15: the grid-search classifier, for the scenario with the keywords     *)
(* weather, temperature, forecast, and the classifier of the               *)
(* function-calling test suite, for its scenario Weather Query, return     *)
(* true for the reply 'The weather today is sunny with temperature around  *)
(* 20 degrees.'.                                                           *)
(***************************************************************************)
Classified == analysis # NoResult

WeatherScenario ==
    \/ tester = "grid_search"
        /\ GridScenarios[scenario].function_keywords = <<"weather", "temperature", "forecast">>
    \/ tester = "function_calling" /\ SuiteScenarios[scenario].name = "Weather Query"

C15_WeatherReplyDetected ==
    (Classified /\ WeatherScenario /\ response = WeatherReply) => analysis.detected

(***************************************************************************)
(* C16: a reply that contains the expected_function of the scenario, in    *)
(* any letter case, has a score of at least 3 and is classified as         *)
(* detected; the verdict is true exactly when the score is at least 3.     *)
(***************************************************************************)
ExpectedFunction ==
    IF tester = "grid_search" THEN GridScenarios[scenario].expected_function
    ELSE SuiteScenarios[scenario].expected_function

C16_IntentNameScoresThree ==
    Classified =>
        /\ analysis.detected <=> analysis.score >= 3
        /\ Contains(Lower(response), ExpectedFunction)
                => (analysis.score >= 3 /\ analysis.detected)

(***************************************************************************)
(* C25: every call of run_with_timeout that has ended has generated the    *)
(* final report exactly once, no call generates it twice and no            *)
(* combination is in the list twice.                                       *)
(***************************************************************************)
C25_ReportExactlyOnce ==
    /\ reports <= 1
    /\ pc \in {"done", "crashed"} => reports = 1
    /\ Cardinality(Range(Triples(Combinations))) = Len(Combinations)

(***************************************************************************)
(* C26: in every state of a run each entry of the maps results.llm,        *)
(* results.tts and results.stt has error count 0, has the type of its map  *)
(* and is stored under the name of its backend, once.                      *)
(***************************************************************************)
C26_ResultMapsHoldErrorFree ==
    \A kind \in Kinds :
        /\ \A i \in DOMAIN results[kind] :
            /\ results[kind][i].val.errors = 0
            /\ results[kind][i].val.type = kind
            /\ results[kind][i].val.name = results[kind][i].key
            /\ KindOf(results[kind][i].key) = kind
        /\ Cardinality(Keys(results[kind])) = Len(results[kind])

C26_Witness ==
    /\ Reported /\ ~timed_out
    /\ \A kind \in Kinds : results[kind] # <<>>
    /\ \E u, v \in Units : ReturnedError(u) /\ probe[v] = "unconfigured"

(***************************************************************************)
(* C27: _generate_combinations never divides by zero, and in every report  *)
(* the normalised latency of each backend of a Combination is at least 1   *)
(* and is 1 for the fastest ranked backend of its kind.                    *)
(***************************************************************************)
\* avg / min of the kind, for the backends of a combination
SubScores(c) ==
    <<Rat(Get(results.llm, c.llm).avg_first_token_time, MinFirstTokenTime(results)),
      Rat(Get(results.tts, c.tts).avg_synthesis_time, MinTtsTime(results)),
      Rat(Get(results.stt, c.stt).avg_processing_time, MinSttTime(results))>>

C27_NoDivisionByZero ==
    /\ pc # "crashed"
    /\ Reported =>
        /\ \A i \in DOMAIN Combinations :
            \A j \in 1 .. 3 : RatLeq(Rat(1, 1), SubScores(Combinations[i])[j])
        /\ Combinations # <<>> =>
            \A j \in 1 .. 3 : \E i \in DOMAIN Combinations :
                SubScores(Combinations[i])[j] = Rat(1, 1)

(***************************************************************************)
(* C24: a synthesis probe one of whose content trials left no audio file   *)
(* ends with error count 1, in the benchmark tester and in the grid-search *)
(* tester; an error-free synthesis result means every trial left a file.   *)
(***************************************************************************)
SynthesisProbeDone == probed \in {"tts", "grid_tts"} /\ probe_pc = "done"

C24_EmptyOutputIsError ==
    SynthesisProbeDone =>
        /\ (\E i \in DOMAIN calls : calls[i].role = "content" /\ calls[i].outcome = "none")
                => probe_result.errors = 1
        /\ probe_result.errors = 0 => \A i \in DOMAIN calls : calls[i].outcome = "ok"

(***************************************************************************)
(* C29: an error-free result of the generation probe has the success       *)
(* ratio (trials that returned a measurement) / (configured sentences),    *)
(* between 1/2 and 1; a probe without successful trial is an error result. *)
(***************************************************************************)
Measured == SelectSeq(calls, LAMBDA c : c.role = "content" /\ c.outcome = "ok")

C29_SuccessRatio ==
    LlmProbeDone =>
        /\ Measured = <<>> => probe_result.errors = 1
        /\ probe_result.errors = 0 =>
            /\ probe_result.success_rate = Rat(Len(Measured), test_count)
            /\ 2 * Len(Measured) >= test_count
            /\ Len(Measured) <= test_count
            /\ RatLeq(Rat(1, 2), probe_result.success_rate)
            /\ RatLeq(probe_result.success_rate, Rat(1, 1))

\* half of the sentence trials fail and the probe is still error-free
C29_Witness ==
    /\ LlmProbeDone /\ probe_result.errors = 0
    /\ test_count = 4 /\ probe_result.success_rate = Rat(1, 2)

\* C21: the sentence trials of one generation probe are concurrent, and every trial
\* is a suspension point: while a trial is in flight the deadline of the run can
\* expire and cancel the probe.
C21_TrialIsSuspensionPoint ==
    (probed = "llm" /\ in_flight > 0) => ENABLED Deadline

\* C22: when a synthesis probe has ended, by a return or by the deadline, none of the
\* audio files its warm-up and its trials wrote is left.
C22_NoArtifactLeft ==
    (probed \in {"tts", "grid_tts"} /\ probe_pc \in {"done", "cancelled"}) => artifacts = 0

\* C23: a local-model backend whose service is unreachable, whose listing endpoint does
\* not answer 200 or whose model is not in the list gets no generation trial, and its
\* result is an error result.
C23_ProbedOnlyWhenInstalled ==
    (probed \in {"llm", "grid_llm"} /\ service \notin {"none", "installed"}) =>
        /\ calls = <<>>
        /\ in_flight = 0
        /\ probe_pc = "done" => probe_result.errors = 1

(***************************************************************************)
(* C30: a function-calling report produced after the backend was           *)
(* instantiated has one entry per configured scenario, in scenario order;  *)
(* an entry whose call raised has verdict false and the scenarios after it *)
(* are still run; successful_calls is the number of entries with verdict   *)
(* true; success_rate = successful_calls / total_tests, between 0 and 1.   *)
(***************************************************************************)
FunctionReportDone ==
    /\ probed \in {"grid_llm", "function_calling"}
    /\ probe_pc = "done"
    /\ function_results # NoResult
    /\ "scenarios" \in DOMAIN function_results

ConfiguredScenarios == IF probed = "grid_llm" THEN Len(GridScenarios) ELSE Len(SuiteScenarios)

Verdict(index, reply) ==
    IF probed = "grid_llm"
    THEN GridAnalyze(reply, GridScenarios[index]).detected
    ELSE SuiteAnalyze(reply, SuiteScenarios[index]).detected

C30_FunctionCallingReport ==
    FunctionReportDone =>
        LET entries == function_results.scenarios
            successes == {i \in DOMAIN entries : entries[i].function_detected}
        IN  /\ function_results.total_tests = ConfiguredScenarios
            /\ Len(entries) = ConfiguredScenarios
            /\ \A i \in DOMAIN entries :
                /\ entries[i].scenario = i
                /\ entries[i].raised => ~entries[i].function_detected
                /\ ~entries[i].raised =>
                    entries[i].function_detected = Verdict(i, entries[i].reply)
            /\ function_results.successful_calls = Cardinality(successes)
            /\ function_results.success_rate
                    = Rat(Cardinality(successes), function_results.total_tests)
            /\ RatLeq(Rat(0, 1), function_results.success_rate)
            /\ RatLeq(function_results.success_rate, Rat(1, 1))

\* a report in which a scenario raised and a later scenario was detected
C30_Witness ==
    /\ FunctionReportDone
    /\ \E i, j \in DOMAIN function_results.scenarios :
        /\ i < j
        /\ function_results.scenarios[i].raised
        /\ function_results.scenarios[j].function_detected
    /\ \E i \in DOMAIN function_results.scenarios :
        /\ ~function_results.scenarios[i].raised
        /\ ~function_results.scenarios[i].function_detected

(***************************************************************************)
(* C28: a sentence trial that returns a measurement has its first-token    *)
(* time at the arrival of the first increment that is not blank, never     *)
(* later than the response time and equal to it when every increment was   *)
(* blank; a trial that raised returns None and is left out of              *)
(* valid_results.                                                          *)
(***************************************************************************)
TrialReturned == trial_pc \in {"idle", "done"} /\ sentence_results # <<>>

LastResult == sentence_results[Len(sentence_results)]

FirstNonBlank == {i \in DOMAIN stream :
                    /\ Strip(stream[i].chunk) # ""
                    /\ \A j \in 1 .. i - 1 : Strip(stream[j].chunk) = ""}

C28_FirstTokenTime ==
    /\ TrialReturned =>
        /\ raised <=> LastResult = NoResult
        /\ ~raised =>
            /\ LastResult.response_time = elapsed
            /\ LastResult.first_token_time <= LastResult.response_time
            /\ \A i \in FirstNonBlank : LastResult.first_token_time = stream[i].at
            /\ FirstNonBlank = {} => LastResult.first_token_time = LastResult.response_time
    /\ trial_pc = "done" =>
        /\ \A i \in DOMAIN valid_results : valid_results[i] # NoResult
        /\ Len(valid_results)
            = Cardinality({i \in DOMAIN sentence_results : sentence_results[i] # NoResult})

\* a blank increment, then text, then the end of the stream some time later; and a
\* batch in which one trial raised and one returned a measurement
C28_Witness ==
    /\ TrialReturned /\ ~raised
    /\ Len(stream) = 2
    /\ Strip(stream[1].chunk) = "" /\ stream[1].chunk # ""
    /\ Strip(stream[2].chunk) # ""
    /\ LastResult.first_token_time = 2
    /\ LastResult.response_time = 3
    /\ trial_pc = "done"
    /\ Len(sentence_results) = 2 /\ Len(valid_results) = 1

====
